---- MODULE Spec2Model ----
(***************************************************************************)
(* maxmux (src/main.go): a reverse proxy that validates a per-client       *)
(* virtual key, swaps it for the one shared OAuth token and forwards the   *)
(* request to the upstream with httputil.ReverseProxy.                     *)
(*                                                                         *)
(* Go strings are TLA+ strings (TLC evaluates Len, SubSeq and \o on them), *)
(* so prefix tests, concatenation and splitting are computed character by  *)
(* character.  An http.Header is a function from the canonical header      *)
(* names present to the sequence of their values, as Go's                  *)
(* map[string][]string.                                                    *)
(***************************************************************************)
EXTENDS Integers, Sequences, FiniteSets, TLC

\* Number of requests the server receives (each in its own goroutine).
NReq == 2

\* Largest number of chunks in an upstream response body.
MaxChunks == 2

\* cfg.Port default of loadConfig.
DefaultPort == 4000

\* http.StatusUnauthorized and http.StatusBadGateway.
StatusUnauthorized == 401

StatusBadGateway == 502

Slots == 1..NReq

(***************************************************************************)
(* Strings (package strings, net/textproto).                               *)
(***************************************************************************)
HasPrefix(s, p) == Len(s) >= Len(p) /\ SubSeq(s, 1, Len(p)) = p

TrimPrefix(s, p) == IF HasPrefix(s, p) THEN SubSeq(s, Len(p) + 1, Len(s)) ELSE s

\* The index of the first occurrence of the one-character string c in s, 0 if none.
RECURSIVE IndexFrom(_, _, _)
IndexFrom(s, c, i) ==
    IF i > Len(s) THEN 0
    ELSE IF SubSeq(s, i, i) = c THEN i
    ELSE IndexFrom(s, c, i + 1)

IndexByte(s, c) == IndexFrom(s, c, 1)

\* strings.Split(s, sep) for a one-character separator: the sequence of fields.
RECURSIVE Split(_, _)
Split(s, sep) ==
    LET i == IndexByte(s, sep) IN
    IF i = 0 THEN <<s>>
    ELSE <<SubSeq(s, 1, i - 1)>> \o Split(SubSeq(s, i + 1, Len(s)), sep)

\* textproto.TrimString: leading and trailing spaces and tabs removed.
RECURSIVE TrimLeft(_)
TrimLeft(s) ==
    IF Len(s) > 0 /\ SubSeq(s, 1, 1) \in {" ", "\t"} THEN TrimLeft(SubSeq(s, 2, Len(s))) ELSE s

RECURSIVE TrimRight(_)
TrimRight(s) ==
    IF Len(s) > 0 /\ SubSeq(s, Len(s), Len(s)) \in {" ", "\t"}
    THEN TrimRight(SubSeq(s, 1, Len(s) - 1)) ELSE s

TrimString(s) == TrimRight(TrimLeft(s))

LowerLetters == "abcdefghijklmnopqrstuvwxyz"

UpperLetters == "ABCDEFGHIJKLMNOPQRSTUVWXYZ"

ToUpperByte(c) ==
    LET i == IndexByte(LowerLetters, c) IN IF i = 0 THEN c ELSE SubSeq(UpperLetters, i, i)

ToLowerByte(c) ==
    LET i == IndexByte(UpperLetters, c) IN IF i = 0 THEN c ELSE SubSeq(LowerLetters, i, i)

\* textproto.CanonicalMIMEHeaderKey: the first letter and every letter after a
\* hyphen in upper case, the others in lower case.
RECURSIVE CanonicalFrom(_, _)
CanonicalFrom(s, upper) ==
    IF Len(s) = 0 THEN ""
    ELSE LET c == SubSeq(s, 1, 1) IN
         (IF upper THEN ToUpperByte(c) ELSE ToLowerByte(c))
             \o CanonicalFrom(SubSeq(s, 2, Len(s)), c = "-")

CanonicalMIMEHeaderKey(s) == CanonicalFrom(s, TRUE)

RECURSIVE ToLower(_)
ToLower(s) == IF Len(s) = 0 THEN "" ELSE ToLowerByte(SubSeq(s, 1, 1)) \o ToLower(SubSeq(s, 2, Len(s)))

\* strings.Join(values, sep).
RECURSIVE Join(_, _)
Join(values, sep) ==
    IF Len(values) = 0 THEN ""
    ELSE IF Len(values) = 1 THEN values[1]
    ELSE values[1] \o sep \o Join(Tail(values), sep)

(***************************************************************************)
(* http.Header.                                                            *)
(***************************************************************************)
EmptyHeader == [k \in {} |-> <<>>]

\* Header.Get: the first value of the key, "" when the key has none.
Get(h, k) == IF k \in DOMAIN h /\ Len(h[k]) > 0 THEN h[k][1] ELSE ""

\* Header.Set: the key's values are replaced by the single value v.
Set(h, k, v) == [x \in (DOMAIN h) \cup {k} |-> IF x = k THEN <<v>> ELSE h[x]]

\* Header.Del: the key and all its values are removed.
Del(h, k) == [x \in (DOMAIN h) \ {k} |-> h[x]]

\* Header.Values: all the values of the key.
Values(h, k) == IF k \in DOMAIN h THEN h[k] ELSE <<>>

(***************************************************************************)
(* Configuration (Config, loadConfig) and url.Parse.                       *)
(***************************************************************************)
DefaultUpstream == "https://api.anthropic.com"

\* loadConfig applied to the parsed YAML document f: the two defaults.
loadConfig(f) ==
    [Port        |-> IF f.Port = 0 THEN DefaultPort ELSE f.Port,
     Upstream    |-> IF f.Upstream = "" THEN DefaultUpstream ELSE f.Upstream,
     OAuthToken  |-> f.OAuthToken,
     VirtualKeys |-> f.VirtualKeys]

maskToken(t) ==
    IF Len(t) <= 16 THEN "***"
    ELSE SubSeq(t, 1, 12) \o "..." \o SubSeq(t, Len(t) - 5, Len(t))

IsLetter(c) == IndexByte(LowerLetters, c) > 0 \/ IndexByte(UpperLetters, c) > 0

IsDigit(c) == IndexByte("0123456789", c) > 0

\* url.getScheme: <<scheme, rest, err>>.
RECURSIVE getSchemeFrom(_, _)
getSchemeFrom(rawURL, i) ==
    IF i > Len(rawURL) THEN <<"", rawURL, FALSE>>
    ELSE LET c == SubSeq(rawURL, i, i) IN
         IF IsLetter(c) THEN getSchemeFrom(rawURL, i + 1)
         ELSE IF IsDigit(c) \/ c \in {"+", "-", "."}
              THEN (IF i = 1 THEN <<"", rawURL, FALSE>> ELSE getSchemeFrom(rawURL, i + 1))
         ELSE IF c = ":"
              THEN (IF i = 1 THEN <<"", "", TRUE>>
                    ELSE <<SubSeq(rawURL, 1, i - 1), SubSeq(rawURL, i + 1, Len(rawURL)), FALSE>>)
         ELSE <<"", rawURL, FALSE>>

getScheme(rawURL) == getSchemeFrom(rawURL, 1)

RECURSIVE AllDigits(_)
AllDigits(s) == Len(s) = 0 \/ (IsDigit(SubSeq(s, 1, 1)) /\ AllDigits(SubSeq(s, 2, Len(s))))

\* url.validOptionalPort on what follows the host name: "" or ":" and digits.
validOptionalPort(port) ==
    port = "" \/ (SubSeq(port, 1, 1) = ":" /\ AllDigits(SubSeq(port, 2, Len(port))))

\* url.Parse for URLs without fragment, user info or IPv6 literal:
\* [err, Scheme, Host, Path, RawQuery, Opaque].
urlParse(rawURL) ==
    LET bad   == [err |-> TRUE, Scheme |-> "", Host |-> "", Path |-> "", RawQuery |-> "", Opaque |-> ""]
        gs    == getScheme(rawURL)
        sch   == ToLower(gs[1])
        q     == IndexByte(gs[2], "?")
        rest  == IF q = 0 THEN gs[2] ELSE SubSeq(gs[2], 1, q - 1)
        query == IF q = 0 THEN "" ELSE SubSeq(gs[2], q + 1, Len(gs[2]))
        seg   == Split(rest, "/")[1]
        auth  == HasPrefix(rest, "//") /\ (sch # "" \/ ~HasPrefix(rest, "///"))
        after == SubSeq(rest, 3, Len(rest))
        sl    == IndexByte(after, "/")
        host  == IF sl = 0 THEN after ELSE SubSeq(after, 1, sl - 1)
        path  == IF sl = 0 THEN "" ELSE SubSeq(after, sl, Len(after))
        colon == IndexByte(host, ":")
    IN
    IF gs[3] THEN bad
    ELSE IF ~HasPrefix(rest, "/") /\ sch # ""
         THEN [err |-> FALSE, Scheme |-> sch, Host |-> "", Path |-> "", RawQuery |-> query, Opaque |-> rest]
    ELSE IF ~HasPrefix(rest, "/") /\ IndexByte(seg, ":") > 0 THEN bad
    ELSE IF auth
         THEN (IF colon > 0 /\ ~validOptionalPort(SubSeq(host, colon, Len(host))) THEN bad
               ELSE [err |-> FALSE, Scheme |-> sch, Host |-> host, Path |-> path,
                     RawQuery |-> query, Opaque |-> ""])
    ELSE [err |-> FALSE, Scheme |-> sch, Host |-> "", Path |-> rest, RawQuery |-> query, Opaque |-> ""]

NoURL == [err |-> TRUE, Scheme |-> "", Host |-> "", Path |-> "", RawQuery |-> "", Opaque |-> ""]

\* validKeys := make(map[string]bool); validKeys[k] = true for each configured key.
\* The map is the set of the keys it maps to true; a missing key reads false.
MakeValidKeys(keys) == {keys[n] : n \in 1..Len(keys)}

(***************************************************************************)
(* State.                                                                  *)
(***************************************************************************)
VARIABLES
    phase,       \* "boot", "listening" or "fatal" (log.Fatal: the process has exited)
    level,       \* the logger's level, from the -log-level flag
    cfg,         \* the *Config loadConfig returned
    validKeys,   \* main's validKeys map
    upstream,    \* main's upstream *url.URL
    oauthToken,  \* main's oauthToken
    bootlog,     \* the records main logs before serving
    pc,          \* pc[i]: where request i is
    req,         \* req[i]: the inbound *http.Request, <<>> before it arrives
    out,         \* out[i]: the clone of the request as Director left it, <<>> before
    sent,        \* sent[i]: the requests transmitted to the upstream for request i
    up,          \* up[i]: the upstream's response, <<>> before it is obtained
    arrived,     \* arrived[i]: how many chunks of its body the upstream has sent so far
    resp,        \* resp[i]: what has been written to the caller's ResponseWriter
    seen,        \* seen[i]: how many of the body's writes have reached the caller
    log          \* log[i]: the records logged for request i, in order

vars == <<phase, level, cfg, validKeys, upstream, oauthToken, bootlog, pc, req, out, sent, up, arrived,
          resp, seen, log>>

config == <<cfg, validKeys, upstream, oauthToken>>

NoResponse == [written |-> 0, status |-> 0, header |-> EmptyHeader, body |-> <<>>]

(***************************************************************************)
(* The handler's authentication (main.go 123-129).                         *)
(***************************************************************************)
\* virtualKey: the Authorization value after "Bearer ", "" without that prefix.
VirtualKeyOf(r) ==
    LET auth == Get(r.header, "Authorization") IN
    IF HasPrefix(auth, "Bearer ") THEN TrimPrefix(auth, "Bearer ") ELSE ""

\* validKeys[virtualKey]
Accepted(keys, r) == VirtualKeyOf(r) \in keys

(***************************************************************************)
(* The proxy (main.go 89-118) inside httputil.ReverseProxy.ServeHTTP.      *)
(***************************************************************************)
OAuthBeta == "oauth-2025-04-20"

\* MergeBeta with the flag written over whatever the client sent.
MergeBetaOverwrites(h) == Set(h, "Anthropic-Beta", OAuthBeta)

\* Director's Anthropic-Beta merge (main.go 102-106).
MergeBeta(h) ==
    LET existing == Get(h, "Anthropic-Beta") IN
    IF existing # "" THEN Set(h, "Anthropic-Beta", existing \o "," \o OAuthBeta)
    ELSE Set(h, "Anthropic-Beta", OAuthBeta)

\* DirectorHeader without the Del of X-Api-Key.
DirectorHeaderKeepsApiKey(h, token) ==
    Set(MergeBeta(Set(h, "Authorization", "Bearer " \o token)),
        "Anthropic-Dangerous-Direct-Browser-Access", "true")

\* DirectorHeader rebuilding the header from the four names it sets and the
\* client's Connection.
DirectorHeaderDropsOthers(h, token) ==
    LET d == Set(MergeBeta(Del(Set(h, "Authorization", "Bearer " \o token), "X-Api-Key")),
                 "Anthropic-Dangerous-Direct-Browser-Access", "true")
    IN [k \in (DOMAIN d) \cap {"Authorization", "Anthropic-Beta", "Connection",
                               "Anthropic-Dangerous-Direct-Browser-Access"} |-> d[k]]

\* Director's header rewrite (main.go 96-107), in the order of the code.
DirectorHeader(h, token) ==
    Set(MergeBeta(Del(Set(h, "Authorization", "Bearer " \o token), "X-Api-Key")),
        "Anthropic-Dangerous-Direct-Browser-Access", "true")

\* Director with the upstream's path in front of the request's and the
\* upstream's query in place of an empty one.
DirectorJoinsPath(r, u, token) ==
    [method |-> r.method,
     scheme |-> u.Scheme,
     urlHost |-> u.Host,
     host   |-> u.Host,
     path   |-> u.Path \o r.path,
     query  |-> IF r.query = "" THEN u.RawQuery ELSE r.query,
     header |-> DirectorHeader(r.header, token),
     body   |-> r.body]

\* Director on ReverseProxy's clone of the inbound request r.
Director(r, u, token) ==
    [method |-> r.method,
     scheme |-> u.Scheme,
     urlHost |-> u.Host,
     host   |-> u.Host,
     path   |-> r.path,
     query  |-> r.query,
     header |-> DirectorHeader(r.header, token),
     body   |-> r.body]

\* httputil's hopHeaders.
HopHeaders ==
    {"Connection", "Proxy-Connection", "Keep-Alive", "Proxy-Authenticate",
     "Proxy-Authorization", "Te", "Trailer", "Transfer-Encoding", "Upgrade"}

\* The header names the values of Connection designate as hop-by-hop.
ConnectionNamed(h) ==
    LET vs == Values(h, "Connection") IN
    UNION {{CanonicalMIMEHeaderKey(TrimString(Split(vs[m], ",")[n])) : n \in 1..Len(Split(vs[m], ","))} :
              m \in 1..Len(vs)}

\* httputil.removeHopByHopHeaders, which ServeHTTP runs after Director has
\* returned: the headers Connection names, then the hopHeaders, are deleted.
removeHopByHopHeaders(h) ==
    [x \in (DOMAIN h) \ ((ConnectionNamed(h) \ {""}) \cup HopHeaders) |-> h[x]]

\* net.SplitHostPort(req.RemoteAddr) for an IPv4 "host:port".
ClientIP(remote) == SubSeq(remote, 1, IndexByte(remote, ":") - 1)

\* ServeHTTP with Director set: X-Forwarded-For gets the client's address
\* appended to the values the request came with.
addForwardedFor(h, remote) ==
    LET prior == Values(h, "X-Forwarded-For") IN
    Set(h, "X-Forwarded-For",
        IF Len(prior) > 0 THEN Join(prior, ", ") \o ", " \o ClientIP(remote) ELSE ClientIP(remote))

\* ServeHTTP: a request without User-Agent gets an empty one, so that the
\* transport does not add its default.
defaultUserAgent(h) == IF "User-Agent" \in DOMAIN h THEN h ELSE Set(h, "User-Agent", "")

\* The request ReverseProxy.ServeHTTP hands to the transport: d is the clone
\* as Director left it, remote the inbound request's RemoteAddr.
OutboundRequest(d, remote) ==
    [d EXCEPT !.header = defaultUserAgent(addForwardedFor(removeHopByHopHeaders(d.header), remote))]

\* http.Error(w, msg, code) on a ResponseWriter nothing was written to.
httpError(w, msg, code) ==
    [written |-> w.written + 1,
     status  |-> code,
     header  |-> Set(Set(Del(w.header, "Content-Length"), "Content-Type", "text/plain; charset=utf-8"),
                     "X-Content-Type-Options", "nosniff"),
     body    |-> Append(w.body, msg \o "\n")]

InvalidKeyBody == "{\"error\":{\"message\":\"invalid virtual key\",\"type\":\"authentication_error\"}}"

UpstreamErrorBody == "{\"error\":{\"message\":\"upstream error\",\"type\":\"proxy_error\"}}"

(***************************************************************************)
(* Inputs: configuration files, inbound requests, upstream responses.      *)
(***************************************************************************)
Token == "sk-ant-oat01-0123456789"

ConfigFile(port, upstreamURL, token, keys) ==
    [Port |-> port, Upstream |-> upstreamURL, OAuthToken |-> token, VirtualKeys |-> keys]

\* The configurations of the single-request specification: every shape of
\* virtual_keys (empty, one key, several, a duplicate, an empty-string entry).
AllConfigFiles ==
    {ConfigFile(0, "", Token, <<"k1", "k2">>),
     ConfigFile(0, "", Token, <<>>),
     ConfigFile(0, "", Token, <<"">>),
     ConfigFile(8080, "http://up.test:8080", Token, <<"k1", "k1">>),
     ConfigFile(0, "", Token, <<"", "k1">>),
     ConfigFile(0, "", "", <<"k1">>)}

\* The configurations of the concurrent specification.
ConfigFiles ==
    {ConfigFile(0, "", Token, <<"k1", "k2">>),
     ConfigFile(0, "", Token, <<"">>),
     ConfigFile(0, "", "", <<"k1">>)}

\* A header from a function of names to value sequences: a name without
\* values is not a key of the map.
HeaderOf(f) == [k \in {x \in DOMAIN f : Len(f[x]) > 0} |-> f[k]]

Request(auth, xapi, beta, conn, xtest, browser, query, body) ==
    [method |-> "POST",
     path   |-> "/v1/messages",
     query  |-> query,
     header |-> HeaderOf([k \in {"Authorization", "X-Api-Key", "Anthropic-Beta", "Connection",
                                 "X-Test", "Anthropic-Dangerous-Direct-Browser-Access"} |->
                   CASE k = "Authorization"  -> auth
                     [] k = "X-Api-Key"      -> xapi
                     [] k = "Anthropic-Beta" -> beta
                     [] k = "Connection"     -> conn
                     [] k = "X-Test"         -> xtest
                     [] OTHER                -> browser]),
     body   |-> body,
     remote |-> "10.0.0.7:5555",
     host   |-> "gw.test:4000"]

AuthValues ==
    {<<>>, <<"">>, <<"Bearer k1">>, <<"bearer k1">>, <<"BEARER k1">>, <<"Bearer  k1">>,
     <<"Bearer k1 ">>, <<"Bearer K1">>, <<"Bearerk1">>, <<"Bearer ">>, <<"k1">>,
     <<"Bearer k2">>, <<"Bearer k1", "Bearer zz">>, <<"Bearer zz", "Bearer k1">>}

XApiKeyValues == {<<>>, <<"a">>, <<"k1">>, <<"a", "b">>}

BetaValues ==
    {<<>>, <<"">>, <<"foo">>, <<"foo,oauth-2025-04-20">>, <<"foo", "bar">>, <<"", "bar">>}

ConnectionValues ==
    {<<>>, <<"keep-alive">>, <<"authorization, Anthropic-Beta">>, <<"close", "x-test">>}

\* Every combination of the header values above.
AllRequests ==
    {Request(a, x, b, c, t, d, q[1], q[2]) :
        a \in AuthValues, x \in XApiKeyValues, b \in BetaValues, c \in ConnectionValues,
        t \in {<<>>, <<"k1">>}, d \in {<<>>, <<"false">>},
        q \in {<<"", "">>, <<"key=k1", "{k1}">>}}

\* The requests of the concurrent specification.
Requests ==
    {Request(<<"Bearer k1">>, <<>>, <<>>, <<>>, <<>>, <<>>, "", ""),
     Request(<<"Bearer k2">>, <<"a">>, <<"foo">>, <<>>, <<"k1">>, <<>>, "", "{}"),
     Request(<<"Bearer zz">>, <<>>, <<"foo">>, <<>>, <<>>, <<>>, "", ""),
     Request(<<>>, <<"k1">>, <<>>, <<>>, <<>>, <<>>, "", "")}

Digits == "123456789"

\* The n chunks of an upstream body: "c1", "c2", ...
Chunks(n) == [k \in 1..n |-> "c" \o SubSeq(Digits, k, k)]

\* An upstream response: contentLength is -1 when the response has no
\* Content-Length; paced tells whether the upstream sends the chunks of its
\* body over time (the next one some time after the one before) or all at once.
UpstreamResponse(status, n) ==
    [status |-> status,
     header |-> HeaderOf([k \in {"X-Test", "Content-Type"} |->
                   IF k = "X-Test" THEN <<"1">> ELSE <<"text/event-stream">>]),
     contentLength |-> -1,
     paced  |-> FALSE,
     chunks |-> Chunks(n)]

\* A response whose n chunks of two bytes are sent over time, with the given
\* Content-Type; with a Content-Length if known.
PacedResponse(ct, known, n) ==
    [UpstreamResponse(200, n) EXCEPT
        !.header = Set(@, "Content-Type", ct),
        !.contentLength = IF known THEN 2 * n ELSE -1,
        !.paced = TRUE]

\* mime.ParseMediaType's media type: what precedes the parameters, trimmed
\* and in lower case.
MediaType(ct) == ToLower(TrimString(Split(ct, ";")[1]))

\* ReverseProxy.flushInterval with FlushInterval unset: -1 (flush after every
\* write) for server-sent events and for a response of unknown length, else 0
\* (no flush by the proxy).
FlushImmediately(u) ==
    MediaType(Get(u.header, "Content-Type")) = "text/event-stream" \/ u.contentLength = -1

AllUpstreamResponses == {UpstreamResponse(200, 1)}

\* The responses of the concurrent specification: a success with every
\* number of chunks, and an error status passed through.
UpstreamResponses == {UpstreamResponse(200, n) : n \in 0..MaxChunks} \cup {UpstreamResponse(429, 1)}

\* Server-sent events, JSON of unknown length and JSON with a Content-Length,
\* each sent over time in every number of chunks; and one body sent at once.
StreamResponses ==
    {PacedResponse(k[1], k[2], n) :
        k \in {<<"text/event-stream", FALSE>>, <<"Text/Event-Stream; charset=utf-8", TRUE>>,
               <<"application/json", FALSE>>, <<"application/json", TRUE>>},
        n \in 0..MaxChunks}
    \cup {UpstreamResponse(200, MaxChunks)}

\* The responses of the specification with fairness: events sent over time in
\* the largest number of chunks, a one-chunk JSON body of known length, and
\* an empty body.
FairResponses ==
    {PacedResponse("text/event-stream", FALSE, MaxChunks),
     PacedResponse("application/json", TRUE, 1),
     UpstreamResponse(200, 0)}

\* p.flushInterval(res), which ServeHTTP computes once for a response before
\* it copies the body: the value for each response of the input sets.
FlushOf ==
    [u \in AllUpstreamResponses \cup UpstreamResponses \cup StreamResponses \cup FairResponses |->
        FlushImmediately(u)]

(***************************************************************************)
(* main: startup (main.go 62-87, 164-166).                                 *)
(***************************************************************************)
LogRecord(lvl, msg) == [level |-> lvl, msg |-> msg]

\* zerolog's levels in increasing order; -log-level names one (main.go 51-58).
LevelNames == <<"debug", "info", "warn", "error">>

LogLevels == {LevelNames[n] : n \in 1..Len(LevelNames)}

Rank(lvl) == CHOOSE n \in 1..Len(LevelNames) : LevelNames[n] = lvl

\* Logger.Level(level): an event below the logger's level is dropped; a fatal
\* event is above every level modelled.
Writes(lvl) == lvl = "fatal" \/ Rank(lvl) >= Rank(level)

\* l with the record appended if the logger writes it.
Emit(l, rec) == IF Writes(rec.level) THEN Append(l, rec) ELSE l

\* strings.EqualFold for ASCII names.
EqualFold(a, b) == ToLower(a) = ToLower(b)

\* The orders in which "for name, values := range r.Header" can visit the
\* names of h: Go leaves the iteration order of a map unspecified.
Orders(h) ==
    {o \in [1..Cardinality(DOMAIN h) -> DOMAIN h] :
        \A a, b \in 1..Cardinality(DOMAIN h) : a # b => o[a] # o[b]}

\* The debug records of one header name (main.go 146-152).
ValueRecords(name, values) ==
    [n \in 1..Len(values) |->
        [level |-> "debug", msg |-> "request header", header |-> name,
         value |-> IF EqualFold(name, "Authorization") THEN maskToken(values[n]) ELSE values[n]]]

\* The debug records of the header loop (main.go 145-153), names visited in order o.
RECURSIVE HeaderRecords(_, _)
HeaderRecords(h, o) ==
    IF Len(o) = 0 THEN <<>>
    ELSE ValueRecords(o[1], h[o[1]]) \o HeaderRecords(h, Tail(o))

\* Director's debug record (main.go 109-112), d being the request as rewritten.
InjectedRecord(d, token) ==
    [level |-> "debug", msg |-> "injected oauth headers",
     authorization |-> "Bearer " \o maskToken(token),
     anthropic_beta |-> Get(d.header, "Anthropic-Beta")]

InitWith(files, levels) ==
    /\ phase = "boot"
    /\ level \in levels
    /\ cfg \in {loadConfig(f) : f \in files}
    /\ validKeys = {}
    /\ upstream = NoURL
    /\ oauthToken = ""
    /\ bootlog = <<>>
    /\ pc = [i \in Slots |-> "idle"]
    /\ req = [i \in Slots |-> <<>>]
    /\ out = [i \in Slots |-> <<>>]
    /\ sent = [i \in Slots |-> <<>>]
    /\ up = [i \in Slots |-> <<>>]
    /\ arrived = [i \in Slots |-> 0]
    /\ resp = [i \in Slots |-> NoResponse]
    /\ seen = [i \in Slots |-> 0]
    /\ log = [i \in Slots |-> <<>>]

\* The default of the -log-level flag (main.go 51).
DefaultLevel == "info"

Init == InitWith(ConfigFiles, {DefaultLevel})

InitRequest == InitWith(AllConfigFiles, {DefaultLevel})

requestVars == <<pc, req, out, sent, up, arrived, resp, seen, log>>

\* Startup without the check of oauth_token.
StartupWithoutTokenCheck ==
    /\ phase = "boot"
    /\ IF urlParse(cfg.Upstream).err
       THEN /\ phase' = "fatal"
            /\ bootlog' = Emit(<<>>, LogRecord("fatal", "invalid upstream URL"))
            /\ validKeys' = MakeValidKeys(cfg.VirtualKeys)
            /\ UNCHANGED <<upstream, oauthToken>>
       ELSE /\ phase' = "listening"
            /\ validKeys' = MakeValidKeys(cfg.VirtualKeys)
            /\ upstream' = urlParse(cfg.Upstream)
            /\ oauthToken' = cfg.OAuthToken
            /\ bootlog' = Emit(Emit(<<>>,
                            [level |-> "info", msg |-> "starting maxmux", port |-> cfg.Port,
                             upstream |-> cfg.Upstream,
                             virtual_keys |-> Cardinality(MakeValidKeys(cfg.VirtualKeys)),
                             oauth_token |-> maskToken(cfg.OAuthToken)]),
                            LogRecord("info", "listening"))
    /\ UNCHANGED <<level, cfg, requestVars>>

\* main up to ListenAndServe: log.Fatal (the process exits) on an empty
\* oauth_token or an upstream url.Parse rejects; otherwise the closures'
\* variables are set and the server listens.
Startup ==
    /\ phase = "boot"
    /\ IF cfg.OAuthToken = ""
       THEN /\ phase' = "fatal"
            /\ bootlog' = Emit(<<>>, LogRecord("fatal", "oauth_token is required in config"))
            /\ UNCHANGED <<validKeys, upstream, oauthToken>>
       ELSE IF urlParse(cfg.Upstream).err
       THEN /\ phase' = "fatal"
            /\ bootlog' = Emit(<<>>, LogRecord("fatal", "invalid upstream URL"))
            /\ validKeys' = MakeValidKeys(cfg.VirtualKeys)
            /\ UNCHANGED <<upstream, oauthToken>>
       ELSE /\ phase' = "listening"
            /\ validKeys' = MakeValidKeys(cfg.VirtualKeys)
            /\ upstream' = urlParse(cfg.Upstream)
            /\ oauthToken' = cfg.OAuthToken
            /\ bootlog' = Emit(Emit(<<>>,
                            [level |-> "info", msg |-> "starting maxmux", port |-> cfg.Port,
                             upstream |-> cfg.Upstream,
                             virtual_keys |-> Cardinality(MakeValidKeys(cfg.VirtualKeys)),
                             oauth_token |-> maskToken(cfg.OAuthToken)]),
                            LogRecord("info", "listening"))
    /\ UNCHANGED <<level, cfg, requestVars>>

(***************************************************************************)
(* One request: the handler (main.go 120-162) and the proxy it calls.      *)
(***************************************************************************)
\* The server accepts a request (one of rs) and starts the handler on it.
Receive(i, rs) ==
    /\ phase = "listening"
    /\ pc[i] = "idle"
    /\ \E r \in rs : req' = [req EXCEPT ![i] = <<r>>]
    /\ pc' = [pc EXCEPT ![i] = "received"]
    /\ UNCHANGED <<phase, level, config, bootlog, out, sent, up, arrived, resp, seen, log>>

\* Reject without its return: the 401 is written and the handler goes on.
RejectWithoutReturn(i) ==
    /\ pc[i] = "received"
    /\ ~Accepted(validKeys, req[i][1])
    /\ log' = [log EXCEPT ![i] = Emit(@, LogRecord("warn", "rejected"))]
    /\ resp' = [resp EXCEPT ![i] = httpError(@, InvalidKeyBody, StatusUnauthorized)]
    /\ pc' = [pc EXCEPT ![i] = "rewriting"]
    /\ UNCHANGED <<phase, level, config, bootlog, req, out, sent, up, arrived, seen>>

\* Reject that waits until some request has an upstream response.
RejectAfterUpstream(i) ==
    /\ pc[i] = "received"
    /\ ~Accepted(validKeys, req[i][1])
    /\ \E j \in Slots : up[j] # <<>>
    /\ log' = [log EXCEPT ![i] = Emit(@, LogRecord("warn", "rejected"))]
    /\ resp' = [resp EXCEPT ![i] = httpError(@, InvalidKeyBody, StatusUnauthorized)]
    /\ seen' = [seen EXCEPT ![i] = 1]
    /\ pc' = [pc EXCEPT ![i] = "rejected"]
    /\ UNCHANGED <<phase, level, config, bootlog, req, out, sent, up, arrived>>

\* handler, main.go 129-137: the key is not valid; 401 and return, after
\* which the server sends what the handler wrote.
Reject(i) ==
    /\ pc[i] = "received"
    /\ ~Accepted(validKeys, req[i][1])
    /\ log' = [log EXCEPT ![i] = Emit(@, LogRecord("warn", "rejected"))]
    /\ resp' = [resp EXCEPT ![i] = httpError(@, InvalidKeyBody, StatusUnauthorized)]
    /\ seen' = [seen EXCEPT ![i] = 1]
    /\ pc' = [pc EXCEPT ![i] = "rejected"]
    /\ UNCHANGED <<phase, level, config, bootlog, req, out, sent, up, arrived>>

\* handler, main.go 129 and 139-155: the key is valid; "forwarding" and, at
\* debug level, one record per header value are logged, and proxy.ServeHTTP
\* is entered.
Forward(i) ==
    /\ pc[i] = "received"
    /\ Accepted(validKeys, req[i][1])
    /\ IF Writes("debug")
       THEN \E o \in Orders(req[i][1].header) :
               log' = [log EXCEPT ![i] = Emit(@, LogRecord("info", "forwarding"))
                                            \o HeaderRecords(req[i][1].header, o)]
       ELSE log' = [log EXCEPT ![i] = Emit(@, LogRecord("info", "forwarding"))]
    /\ pc' = [pc EXCEPT ![i] = "rewriting"]
    /\ UNCHANGED <<phase, level, config, bootlog, req, out, sent, up, arrived, resp, seen>>

\* ServeHTTP: Director rewrites a clone of the inbound request and logs what
\* it injected.
Rewrite(i) ==
    /\ pc[i] = "rewriting"
    /\ out' = [out EXCEPT ![i] = <<Director(req[i][1], upstream, oauthToken)>>]
    /\ log' = [log EXCEPT ![i] =
                  Emit(@, InjectedRecord(Director(req[i][1], upstream, oauthToken), oauthToken))]
    /\ pc' = [pc EXCEPT ![i] = "transmitting"]
    /\ UNCHANGED <<phase, level, config, bootlog, req, sent, up, arrived, resp, seen>>

\* ServeHTTP after Director: the hop-by-hop headers are removed, X-Forwarded-For
\* and User-Agent are set, and transport.RoundTrip is given the request, once.
Transmit(i) ==
    /\ pc[i] = "transmitting"
    /\ sent' = [sent EXCEPT ![i] = Append(@, OutboundRequest(out[i][1], req[i][1].remote))]
    /\ pc' = [pc EXCEPT ![i] = "awaiting"]
    /\ UNCHANGED <<phase, level, config, bootlog, req, out, up, arrived, resp, seen, log>>

\* TransportError retrying: nothing is written and the request is transmitted again.
TransportErrorRetries(i) ==
    /\ pc[i] = "awaiting"
    /\ log' = [log EXCEPT ![i] = Emit(@, LogRecord("error", "upstream error"))]
    /\ pc' = [pc EXCEPT ![i] = "transmitting"]
    /\ UNCHANGED <<phase, level, config, bootlog, req, out, sent, up, arrived, resp, seen>>

\* TransportError that also stops accepting keys after an upstream failure.
TransportErrorBlocksKeys(i) ==
    /\ pc[i] = "awaiting"
    /\ log' = [log EXCEPT ![i] = Emit(Emit(@, LogRecord("error", "upstream error")),
                                      LogRecord("info", "completed"))]
    /\ resp' = [resp EXCEPT ![i] = httpError(@, UpstreamErrorBody, StatusBadGateway)]
    /\ seen' = [seen EXCEPT ![i] = 1]
    /\ pc' = [pc EXCEPT ![i] = "upstream_error"]
    /\ validKeys' = {}
    /\ UNCHANGED <<phase, level, cfg, upstream, oauthToken, bootlog, req, out, sent, up, arrived>>

\* TransportError answering with the handler's 401 text and status.
TransportErrorAs401(i) ==
    /\ pc[i] = "awaiting"
    /\ log' = [log EXCEPT ![i] = Emit(Emit(@, LogRecord("error", "upstream error")),
                                      LogRecord("info", "completed"))]
    /\ resp' = [resp EXCEPT ![i] = httpError(@, InvalidKeyBody, StatusUnauthorized)]
    /\ seen' = [seen EXCEPT ![i] = 1]
    /\ pc' = [pc EXCEPT ![i] = "upstream_error"]
    /\ UNCHANGED <<phase, level, config, bootlog, req, out, sent, up, arrived>>

\* RoundTrip returned an error: ErrorHandler (main.go 114-117) logs it and
\* answers 502; ServeHTTP returns, the handler logs "completed" and the
\* server sends what was written.
TransportError(i) ==
    /\ pc[i] = "awaiting"
    /\ log' = [log EXCEPT ![i] = Emit(Emit(@, LogRecord("error", "upstream error")),
                                      LogRecord("info", "completed"))]
    /\ resp' = [resp EXCEPT ![i] = httpError(@, UpstreamErrorBody, StatusBadGateway)]
    /\ seen' = [seen EXCEPT ![i] = 1]
    /\ pc' = [pc EXCEPT ![i] = "upstream_error"]
    /\ UNCHANGED <<phase, level, config, bootlog, req, out, sent, up, arrived>>

\* http.Transport.RoundTrip can obtain a response only for an http or https
\* URL with a host; for any other it returns an error.
Routable(o) == o.scheme \in {"http", "https"} /\ o.urlHost # ""

\* RoundTrip returned the upstream's response (one of us): its headers (less
\* the hop-by-hop ones) and its status are written to the caller.  An upstream
\* that paces its body has sent none of it yet, another one all of it.
ResponseHeaders(i, us) ==
    /\ pc[i] = "awaiting"
    /\ Routable(sent[i][1])
    /\ \E u \in us :
        /\ up' = [up EXCEPT ![i] = <<u>>]
        /\ arrived' = [arrived EXCEPT ![i] = IF u.paced THEN 0 ELSE Len(u.chunks)]
        /\ resp' = [resp EXCEPT ![i] = [written |-> @.written + 1,
                                        status  |-> u.status,
                                        header  |-> removeHopByHopHeaders(u.header),
                                        body    |-> @.body]]
    /\ pc' = [pc EXCEPT ![i] = "streaming_response"]
    /\ UNCHANGED <<phase, level, config, bootlog, req, out, sent, seen, log>>

\* A pacing upstream sends the next chunk of its body, some time after the
\* proxy has relayed all it had sent before.
UpstreamSends(i) ==
    /\ pc[i] = "streaming_response"
    /\ up[i][1].paced
    /\ arrived[i] < Len(up[i][1].chunks)
    /\ Len(resp[i].body) = arrived[i]
    /\ arrived' = [arrived EXCEPT ![i] = @ + 1]
    /\ UNCHANGED <<phase, level, config, bootlog, pc, req, out, sent, up, resp, seen, log>>

\* copyResponse: the next chunk that has arrived is written to the caller's
\* ResponseWriter; it is flushed to the caller at once for a response
\* ReverseProxy flushes immediately, and stays in the server's write buffers
\* (which the few bytes of a chunk do not fill) for any other.
RelayChunk(i) ==
    /\ pc[i] = "streaming_response"
    /\ Len(resp[i].body) < arrived[i]
    /\ resp' = [resp EXCEPT ![i].body = Append(@, up[i][1].chunks[Len(@) + 1])]
    /\ seen' = [seen EXCEPT ![i] = IF FlushOf[up[i][1]] THEN Len(resp[i].body) + 1 ELSE @]
    /\ UNCHANGED <<phase, level, config, bootlog, pc, req, out, sent, up, arrived, log>>

\* Complete without the handler's "completed" record.
CompleteSilently(i) ==
    /\ pc[i] = "streaming_response"
    /\ Len(resp[i].body) = Len(up[i][1].chunks)
    /\ seen' = [seen EXCEPT ![i] = Len(resp[i].body)]
    /\ pc' = [pc EXCEPT ![i] = "passthrough"]
    /\ UNCHANGED <<phase, level, config, bootlog, req, out, sent, up, arrived, resp, log>>

\* The upstream body ended: ServeHTTP returns, the handler logs "completed"
\* and the server sends what is still in its write buffers.
Complete(i) ==
    /\ pc[i] = "streaming_response"
    /\ Len(resp[i].body) = Len(up[i][1].chunks)
    /\ log' = [log EXCEPT ![i] = Emit(@, LogRecord("info", "completed"))]
    /\ seen' = [seen EXCEPT ![i] = Len(resp[i].body)]
    /\ pc' = [pc EXCEPT ![i] = "passthrough"]
    /\ UNCHANGED <<phase, level, config, bootlog, req, out, sent, up, arrived, resp>>

\* copyResponse failed while chunks remain (the caller went away or the
\* upstream connection dropped): ServeHTTP panics with http.ErrAbortHandler,
\* the server tears the connection down and the handler logs nothing more.
StreamAbort(i) ==
    /\ pc[i] = "streaming_response"
    /\ Len(resp[i].body) < Len(up[i][1].chunks)
    /\ pc' = [pc EXCEPT ![i] = "aborted"]
    /\ UNCHANGED <<phase, level, config, bootlog, req, out, sent, up, arrived, resp, seen, log>>

Next ==
    \/ Startup
    \/ \E i \in Slots : Receive(i, Requests)
    \/ \E i \in Slots : Reject(i)
    \/ \E i \in Slots : Forward(i)
    \/ \E i \in Slots : Rewrite(i)
    \/ \E i \in Slots : Transmit(i)
    \/ \E i \in Slots : TransportError(i)
    \/ \E i \in Slots : ResponseHeaders(i, UpstreamResponses)
    \/ \E i \in Slots : RelayChunk(i)
    \/ \E i \in Slots : Complete(i)
    \/ \E i \in Slots : StreamAbort(i)

Spec == Init /\ [][Next]_vars

\* One request, drawn from every combination of header values, under every
\* configuration shape.
NextRequest ==
    \/ Startup
    \/ Receive(1, AllRequests)
    \/ Reject(1)
    \/ Forward(1)
    \/ Rewrite(1)
    \/ Transmit(1)
    \/ TransportError(1)
    \/ ResponseHeaders(1, AllUpstreamResponses)
    \/ RelayChunk(1)
    \/ Complete(1)
    \/ StreamAbort(1)

SpecRequest == InitRequest /\ [][NextRequest]_vars

(***************************************************************************)
(* The operator's inputs: every log level, shared credentials around the   *)
(* length maskToken tests, upstream values of every shape.                 *)
(***************************************************************************)
SetupKeys == <<"k1", "0123456789", "sk-proxy-key-1">>

SetupConfigFiles ==
    {ConfigFile(0, "", Token, SetupKeys),
     ConfigFile(0, "", "sk-ant-oat01-abc", SetupKeys),
     ConfigFile(0, "", "sk-ant-oat01-abcd", SetupKeys),
     ConfigFile(0, "", "sk-ant-oat01-abcde", SetupKeys),
     ConfigFile(0, "", "sk-ant-oat01-abcdef", SetupKeys),
     ConfigFile(0, "", "", SetupKeys),
     ConfigFile(0, "api.anthropic.com", Token, SetupKeys),
     ConfigFile(0, "localhost:8080", Token, SetupKeys),
     ConfigFile(0, "https://", Token, SetupKeys),
     ConfigFile(0, ":8080", Token, SetupKeys),
     ConfigFile(8080, "http://up.test:8080/base?x=1", Token, SetupKeys),
     ConfigFile(0, "HTTPS://api.anthropic.com/", Token, SetupKeys)}

SetupRequests ==
    {Request(<<"Bearer k1">>, <<>>, <<>>, <<>>, <<>>, <<>>, "", "{}"),
     Request(<<"Bearer 0123456789">>, <<"a">>, <<>>, <<>>, <<>>, <<>>, "", ""),
     Request(<<"Bearer sk-proxy-key-1">>, <<>>, <<"foo">>, <<>>, <<>>, <<>>, "beta=true", "{}"),
     [Request(<<"Bearer k1">>, <<>>, <<>>, <<>>, <<"1", "2">>, <<>>, "a=1&b=2", "")
         EXCEPT !.method = "GET", !.path = "/"],
     Request(<<"Bearer zz">>, <<>>, <<>>, <<>>, <<>>, <<>>, "", "")}

InitSetup == InitWith(SetupConfigFiles, LogLevels)

NextSetup ==
    \/ Startup
    \/ Receive(1, SetupRequests)
    \/ Reject(1)
    \/ Forward(1)
    \/ Rewrite(1)
    \/ Transmit(1)
    \/ TransportError(1)
    \/ ResponseHeaders(1, AllUpstreamResponses)
    \/ RelayChunk(1)
    \/ Complete(1)
    \/ StreamAbort(1)

SpecSetup == InitSetup /\ [][NextSetup]_vars

(***************************************************************************)
(* Upstreams that send their body over time.                               *)
(***************************************************************************)
StreamConfigFiles == {ConfigFile(0, "", Token, <<"k1">>)}

StreamRequests ==
    {Request(<<"Bearer k1">>, <<>>, <<>>, <<>>, <<>>, <<>>, "", "{}"),
     Request(<<"Bearer zz">>, <<>>, <<>>, <<>>, <<>>, <<>>, "", "{}")}

InitStream == InitWith(StreamConfigFiles, {DefaultLevel})

NextStream ==
    \/ Startup
    \/ \E i \in Slots : Receive(i, StreamRequests)
    \/ \E i \in Slots : Reject(i)
    \/ \E i \in Slots : Forward(i)
    \/ \E i \in Slots : Rewrite(i)
    \/ \E i \in Slots : Transmit(i)
    \/ \E i \in Slots : TransportError(i)
    \/ \E i \in Slots : ResponseHeaders(i, StreamResponses)
    \/ \E i \in Slots : UpstreamSends(i)
    \/ \E i \in Slots : RelayChunk(i)
    \/ \E i \in Slots : Complete(i)
    \/ \E i \in Slots : StreamAbort(i)

SpecStream == InitStream /\ [][NextStream]_vars

\* The goroutines of the handlers are scheduled fairly: a handler step that
\* stays possible is taken.
HandlerFairness ==
    \A i \in Slots :
        /\ WF_vars(Reject(i)) /\ WF_vars(Forward(i)) /\ WF_vars(Rewrite(i)) /\ WF_vars(Transmit(i))
        /\ WF_vars(RelayChunk(i)) /\ WF_vars(Complete(i))

\* The upstream answers or fails for each request it is sent, and sends the
\* whole body of a response it has begun.
UpstreamFairness ==
    \A i \in Slots :
        /\ WF_vars(TransportError(i) \/ ResponseHeaders(i, FairResponses))
        /\ WF_vars(UpstreamSends(i))

NextFair ==
    \/ Startup
    \/ \E i \in Slots : Receive(i, StreamRequests)
    \/ \E i \in Slots : Reject(i)
    \/ \E i \in Slots : Forward(i)
    \/ \E i \in Slots : Rewrite(i)
    \/ \E i \in Slots : Transmit(i)
    \/ \E i \in Slots : TransportError(i)
    \/ \E i \in Slots : ResponseHeaders(i, FairResponses)
    \/ \E i \in Slots : UpstreamSends(i)
    \/ \E i \in Slots : RelayChunk(i)
    \/ \E i \in Slots : Complete(i)
    \/ \E i \in Slots : StreamAbort(i)

\* No fairness is needed of main (a received request has been accepted by a
\* listening server) or of the arrival of requests, and none is assumed of
\* aborts.
FairStream == InitStream /\ [][NextFair]_vars /\ HandlerFairness /\ UpstreamFairness

(***************************************************************************)
(* Properties.  The reference notions below are written from the          *)
(* statements, not from the handler's code.                                *)
(***************************************************************************)
\* The keys the configuration lists.
ConfiguredKeys == {cfg.VirtualKeys[n] : n \in 1..Len(cfg.VirtualKeys)}

\* The first Authorization value starts with "Bearer ".
HasBearer(r) ==
    /\ "Authorization" \in DOMAIN r.header
    /\ Len(r.header["Authorization"][1]) >= 7
    /\ SubSeq(r.header["Authorization"][1], 1, 7) = "Bearer "

\* What follows "Bearer " in the Authorization value, "" without header or prefix.
PresentedCredential(r) ==
    IF HasBearer(r)
    THEN SubSeq(r.header["Authorization"][1], 8, Len(r.header["Authorization"][1]))
    ELSE ""

\* sub occurs in s.
Contains(s, sub) == \E n \in 1..(Len(s) - Len(sub) + 1) : SubSeq(s, n, n + Len(sub) - 1) = sub

\* key occurs somewhere in request o: path, query, body, a header name or value.
AppearsIn(o, key) ==
    \/ Contains(o.path, key) \/ Contains(o.query, key) \/ Contains(o.body, key)
    \/ \E k \in DOMAIN o.header :
          Contains(k, key) \/ \E n \in 1..Len(o.header[k]) : Contains(o.header[k][n], key)

\* The comma-separated tokens of one header value, and of all values of header k.
Tokens(v) == {TrimString(Split(v, ",")[n]) : n \in 1..Len(Split(v, ","))} \ {""}

HeaderTokens(h, k) == UNION {Tokens(Values(h, k)[m]) : m \in 1..Len(Values(h, k))}

\* The chunks written to the caller, as one body.
Body(w) == Join(w.body, "")

\* C1: a request whose presented credential is not a configured virtual key
\* is answered 401 and the upstream is never contacted for it: it is never
\* rewritten or transmitted, rejecting is the one step it can take, and the
\* one response written for it is the 401.
C1_RejectedNeverContactsUpstream ==
    \A i \in Slots :
        (req[i] # <<>> /\ PresentedCredential(req[i][1]) \notin ConfiguredKeys) =>
            /\ pc[i] \in {"received", "rejected"}
            /\ out[i] = <<>> /\ sent[i] = <<>> /\ up[i] = <<>>
            /\ pc[i] = "received" => (resp[i].written = 0 /\ ENABLED Reject(i) /\ ~ENABLED Forward(i))
            /\ pc[i] = "rejected" => (resp[i].written = 1 /\ resp[i].status = 401)

\* A request with the prefix in the wrong case in front of a configured key has been rejected.
C1_Witness ==
    /\ pc[1] = "rejected"
    /\ resp[1].status = 401
    /\ Get(req[1][1].header, "Authorization") = "bearer k1"
    /\ "k1" \in ConfiguredKeys

\* C2: for every request accepted on a (non-empty) virtual key, the
\* transmitted request's Authorization header is exactly
\* "Bearer <shared credential>" and the virtual key occurs nowhere in the
\* transmitted request.
C2_OutboundCarriesOnlySharedCredential ==
    \A i \in Slots : \A n \in 1..Len(sent[i]) :
        PresentedCredential(req[i][1]) # "" =>
            /\ Values(sent[i][n].header, "Authorization") = <<"Bearer " \o cfg.OAuthToken>>
            /\ ~AppearsIn(sent[i][n], PresentedCredential(req[i][1]))

\* C3: a request is accepted if and only if its Authorization header starts
\* with "Bearer " and the remainder is, exactly, a configured virtual key.
C3_DecisionEqualsReferenceCheck ==
    \A i \in Slots :
        pc[i] \notin {"idle", "received"} =>
            ((pc[i] # "rejected") <=>
                (HasBearer(req[i][1]) /\ PresentedCredential(req[i][1]) \in ConfiguredKeys))

\* C4: under every configuration, a request without Authorization header or
\* without the "Bearer " prefix is never accepted.
C4_NoCredentialNeverAccepted ==
    \A i \in Slots :
        (req[i] # <<>> /\ ~HasBearer(req[i][1])) => pc[i] \in {"received", "rejected"}

C6_ClientFlagsKept ==
    \A i \in Slots :
        out[i] # <<>> =>
            HeaderTokens(req[i][1].header, "Anthropic-Beta")
                \subseteq HeaderTokens(out[i][1].header, "Anthropic-Beta")

\* C7: no rewritten and no transmitted request has an X-Api-Key header.
C7_ApiKeyRemoved ==
    \A i \in Slots :
        /\ out[i] # <<>> => "X-Api-Key" \notin DOMAIN out[i][1].header
        /\ \A n \in 1..Len(sent[i]) : "X-Api-Key" \notin DOMAIN sent[i][n].header

\* A request that came with two X-Api-Key values has been transmitted.
C7_Witness ==
    /\ sent[1] # <<>>
    /\ Values(req[1][1].header, "X-Api-Key") = <<"a", "b">>
    /\ "X-Api-Key" \notin DOMAIN sent[1][1].header

\* C8 as stated: after a transport failure the caller has status 502 and
\* the body is exactly the JSON envelope.
C8_UpstreamErrorAsStated ==
    \A i \in Slots :
        pc[i] = "upstream_error" =>
            /\ resp[i].status = 502
            /\ Body(resp[i]) = "{\"error\":{\"message\":\"upstream error\",\"type\":\"proxy_error\"}}"

\* C8, amended: after a transport failure the caller has been written one
\* response, with status 502 and the JSON envelope followed by a line feed.
C8_UpstreamError ==
    \A i \in Slots :
        pc[i] = "upstream_error" =>
            /\ resp[i].written = 1
            /\ resp[i].status = 502
            /\ Body(resp[i]) = "{\"error\":{\"message\":\"upstream error\",\"type\":\"proxy_error\"}}\n"

\* An accepted request was transmitted and its transmission has failed.
C8_Witness ==
    /\ pc[1] = "upstream_error"
    /\ Len(sent[1]) = 1
    /\ up[1] = <<>>
    /\ resp[1].status = 502

\* The state of request i in the request state machine: the body of a
\* passed-through response streams inside streaming_response.
MachineState(i) ==
    CASE pc[i] = "idle"                                             -> "none"
      [] pc[i] = "received"                                         -> "authenticating"
      [] pc[i] = "rejected"                                         -> "rejected"
      [] pc[i] = "rewriting"                                        -> "rewriting"
      [] pc[i] \in {"transmitting", "awaiting"}                     -> "transmitting"
      [] pc[i] \in {"streaming_response", "passthrough", "aborted"} -> "streaming_response"
      [] pc[i] = "upstream_error"                                   -> "upstream_error"

MachineEdges ==
    {<<"none", "authenticating">>, <<"authenticating", "rejected">>,
     <<"authenticating", "rewriting">>, <<"rewriting", "transmitting">>,
     <<"transmitting", "streaming_response">>, <<"transmitting", "upstream_error">>}

MachineTerminal == {"rejected", "streaming_response", "upstream_error"}

\* One response once a terminal state is reached and none before; at most one transmission.
C9_Counts ==
    \A i \in Slots :
        /\ resp[i].written = (IF MachineState(i) \in MachineTerminal THEN 1 ELSE 0)
        /\ Len(sent[i]) <= 1
        /\ MachineState(i) = "rejected" => resp[i].status = 401
        /\ MachineState(i) = "upstream_error" => resp[i].status = 502
        /\ MachineState(i) = "streaming_response" => (up[i] # <<>> /\ resp[i].status = up[i][1].status)

\* Every change of state is an edge of the machine; a terminal state is never
\* left, and in it the response's status and headers stay as written and
\* nothing more is transmitted.
C9_Step ==
    \A i \in Slots :
        /\ MachineState(i)' # MachineState(i) => <<MachineState(i), MachineState(i)'>> \in MachineEdges
        /\ MachineState(i) \in MachineTerminal =>
              /\ MachineState(i)' = MachineState(i)
              /\ resp'[i].written = resp[i].written
              /\ resp'[i].status = resp[i].status
              /\ resp'[i].header = resp[i].header
              /\ sent'[i] = sent[i]

\* C9: each request follows received -> authenticating -> {rejected |
\* rewriting -> transmitting -> {streaming_response | upstream_error}}: exactly
\* one response is written, no transition leaves a state in which a response
\* has been written, and the upstream is transmitted to at most once.
C9_StateMachine == [][C9_Counts /\ C9_Counts' /\ C9_Step]_vars

\* One request failed upstream after its one transmission, the other was passed through.
C9_Witness ==
    /\ pc[1] = "upstream_error" /\ Len(sent[1]) = 1 /\ resp[1].written = 1
    /\ pc[2] = "passthrough" /\ Len(sent[2]) = 1 /\ Len(resp[2].body) = 2

\* Two requests with the same content are treated the same, whatever else
\* has happened: same decision, same rewritten and transmitted request, and,
\* at the same point of the same upstream outcome, the same response and log.
C10_SameRequestSameOutcome ==
    \A i, j \in Slots :
        (req[i] # <<>> /\ req[i] = req[j]) =>
            /\ pc[i] = "rejected" => pc[j] \in {"received", "rejected"}
            /\ (out[i] # <<>> /\ out[j] # <<>>) => out[i] = out[j]
            /\ (sent[i] # <<>> /\ sent[j] # <<>>) => sent[i] = sent[j]
            /\ (pc[i] = pc[j] /\ up[i] = up[j] /\ Len(resp[i].body) = Len(resp[j].body)) =>
                  (resp[i] = resp[j] /\ log[i] = log[j])

\* The state kept for request i.
RequestState(i) == <<pc[i], req[i], out[i], sent[i], up[i], resp[i], log[i]>>

\* Startup sets the key set, the upstream and the credential from the loaded
\* configuration; once the server listens no step changes them.
C10_ConfigStep ==
    /\ cfg' = cfg
    /\ (phase = "boot" /\ phase' = "listening") =>
          /\ validKeys' = ConfiguredKeys
          /\ oauthToken' = cfg.OAuthToken
          /\ upstream' = urlParse(cfg.Upstream)
    /\ phase = "listening" => (phase' = phase /\ config' = config)

\* A step of one request leaves every other request's state as it is.
C10_NoInterference ==
    \A i, j \in Slots :
        (i # j /\ RequestState(i)' # RequestState(i)) => RequestState(j)' = RequestState(j)

\* What a step writes for request i follows from the request's own content,
\* the loaded configuration and its own upstream exchange alone.
C10_OutcomeFromOwnInputs ==
    \A i \in Slots :
        /\ req[i] # <<>> => req'[i] = req[i]
        /\ (pc[i] = "received" /\ pc'[i] # "received") =>
              IF Accepted(ConfiguredKeys, req[i][1])
              THEN pc'[i] = "rewriting" /\ resp'[i] = NoResponse
              ELSE pc'[i] = "rejected" /\ resp'[i] = httpError(NoResponse, InvalidKeyBody, 401)
        /\ out'[i] # out[i] =>
              (out[i] = <<>> /\ out'[i] = <<Director(req[i][1], urlParse(cfg.Upstream), cfg.OAuthToken)>>)
        /\ sent'[i] # sent[i] =>
              (sent[i] = <<>> /\ sent'[i] = <<OutboundRequest(out[i][1], req[i][1].remote)>>)
        /\ (pc[i] = "awaiting" /\ pc'[i] = "upstream_error") =>
              resp'[i] = httpError(NoResponse, UpstreamErrorBody, 502)
        /\ (pc[i] = "awaiting" /\ pc'[i] = "streaming_response") =>
              /\ up'[i] # <<>>
              /\ resp'[i].status = up'[i][1].status
              /\ resp'[i].header = removeHopByHopHeaders(up'[i][1].header)
              /\ resp'[i].body = <<>>
        /\ up[i] # <<>> =>
              /\ up'[i] = up[i]
              /\ resp'[i].body = SubSeq(up[i][1].chunks, 1, Len(resp'[i].body))

\* C10: after startup the virtual-key set and the shared credential never
\* change, and a request's outcome depends only on the request, the
\* configuration and its own upstream exchange, under every interleaving:
\* no step of one request touches another, and two requests with the same
\* content come to the same outcome.
C10_Isolation ==
    [][/\ C10_ConfigStep
       /\ C10_NoInterference
       /\ C10_OutcomeFromOwnInputs
       /\ C10_SameRequestSameOutcome']_vars

\* The same request twice: one transmission failed, the other was passed through.
C10_Witness ==
    /\ req[1] # <<>> /\ req[1] = req[2]
    /\ pc[1] = "upstream_error"
    /\ pc[2] = "passthrough"

\* C11: with an empty shared credential (oauth_token) the process fails at
\* startup: it never listens, the one step it takes is the fatal exit, and
\* no request is ever received, answered or sent upstream.
C11_EmptyCredentialNeverServes ==
    cfg.OAuthToken = "" =>
        /\ phase \in {"boot", "fatal"}
        /\ phase = "fatal" => bootlog = <<LogRecord("fatal", "oauth_token is required in config")>>
        /\ \A i \in Slots :
              /\ pc[i] = "idle" /\ req[i] = <<>>
              /\ sent[i] = <<>> /\ resp[i] = NoResponse /\ log[i] = <<>>

\* The process has exited on a configuration without shared credential.
C11_Witness ==
    /\ cfg.OAuthToken = ""
    /\ phase = "fatal"
    /\ Len(cfg.VirtualKeys) > 0

\* v is an absolute URL with a scheme and a host: a scheme, "://", and a host
\* of at least one character before any "/" or "?".
IsAbsoluteURL(v) ==
    \E n \in 2..(Len(v) - 3) :
        /\ SubSeq(v, n, n + 2) = "://"
        /\ \A m \in 1..(n - 1) : SubSeq(v, m, m) \notin {":", "/", "?"}
        /\ SubSeq(v, n + 3, n + 3) \notin {"/", "?"}

\* C12: with an upstream value that is not an absolute URL with a scheme and
\* a host, startup fails: the process never listens and no request is ever
\* received.
C12_RelativeUpstreamFailsStartup ==
    ~IsAbsoluteURL(cfg.Upstream) =>
        /\ phase \in {"boot", "fatal"}
        /\ \A i \in Slots : pc[i] = "idle" /\ req[i] = <<>>

\* C13: the response body is relayed incrementally and in order: what has
\* been written for the caller, and what has reached the caller, is a prefix
\* of the upstream's chunks in the upstream's order, and when an upstream
\* that sends N >= 2 chunks over time sends its last chunk, the caller has
\* already observed the first one.
C13_FirstChunkBeforeLast ==
    \A i \in Slots :
        up[i] # <<>> =>
            /\ resp[i].body = SubSeq(up[i][1].chunks, 1, Len(resp[i].body))
            /\ seen[i] <= Len(resp[i].body)
            /\ (up[i][1].paced /\ Len(up[i][1].chunks) >= 2 /\ arrived[i] = Len(up[i][1].chunks)) =>
                  seen[i] >= 1

\* The scheme of the absolute URL v: what precedes "://", case aside.
SchemeOf(v) == ToLower(SubSeq(v, 1, IndexByte(v, ":") - 1))

\* The host of the absolute URL v: what follows "://" up to the next "/" or "?".
HostOf(v) ==
    LET rest == SubSeq(v, IndexByte(v, ":") + 3, Len(v))
        ends == {n \in 1..Len(rest) : SubSeq(rest, n, n) \in {"/", "?"}}
    IN IF ends = {} THEN rest
       ELSE SubSeq(rest, 1, (CHOOSE n \in ends : \A m \in ends : n <= m) - 1)

\* C14: every request sent upstream has the inbound request's method, path
\* and query string, and, the configured upstream being an absolute URL, that
\* URL's scheme and host as its destination (and Host), whatever path or
\* query the upstream URL has itself.
C14_DestinationAndPath ==
    \A i \in Slots : \A n \in 1..Len(sent[i]) :
        /\ sent[i][n].method = req[i][1].method
        /\ sent[i][n].path = req[i][1].path
        /\ sent[i][n].query = req[i][1].query
        /\ IsAbsoluteURL(cfg.Upstream) =>
              /\ sent[i][n].scheme = SchemeOf(cfg.Upstream)
              /\ sent[i][n].urlHost = HostOf(cfg.Upstream)
              /\ sent[i][n].host = HostOf(cfg.Upstream)

\* A GET of "/" with a query has been sent to an upstream configured with a
\* path and a query of its own.
C14_Witness ==
    /\ cfg.Upstream = "http://up.test:8080/base?x=1"
    /\ Len(sent[1]) = 1
    /\ req[1][1].method = "GET" /\ req[1][1].path = "/" /\ req[1][1].query = "a=1&b=2"
    /\ sent[1][1].scheme = "http" /\ sent[1][1].urlHost = "up.test:8080"
    /\ sent[1][1].path = "/"

\* The four headers the rewrite phase sets or removes.
RewrittenHeaders ==
    {"Authorization", "X-Api-Key", "Anthropic-Beta", "Anthropic-Dangerous-Direct-Browser-Access"}

\* Header k has the same values (or is as absent) in headers g and h.
SameHeader(g, h, k) == Values(g, k) = Values(h, k)

\* The headers of request r that are hop-by-hop: the standard ones and those
\* a Connection value of r names, case aside.
HopByHop(r) ==
    {"Connection", "Proxy-Connection", "Keep-Alive", "Proxy-Authenticate", "Proxy-Authorization",
     "Te", "Trailer", "Transfer-Encoding", "Upgrade"}
    \cup {k \in DOMAIN r.header : \E t \in HeaderTokens(r.header, "Connection") : ToLower(t) = ToLower(k)}

C15_FrameOfRewrite(i) ==
    /\ out[i][1].body = req[i][1].body
    /\ \A k \in ((DOMAIN req[i][1].header) \cup (DOMAIN out[i][1].header)) \ RewrittenHeaders :
          SameHeader(req[i][1].header, out[i][1].header, k)

\* The request sent upstream: the body is the inbound one, X-Forwarded-For is
\* the caller's address (the inbound request having none), User-Agent is the
\* inbound one or empty, the hop-by-hop headers are absent, and every other
\* header outside the four is as on the inbound request.
C15_FrameOfSent(i) ==
    LET hop == HopByHop(req[i][1]) IN
    /\ sent[i][1].body = req[i][1].body
    /\ "X-Forwarded-For" \notin DOMAIN req[i][1].header =>
          Values(sent[i][1].header, "X-Forwarded-For") = <<"10.0.0.7">>
    /\ Values(sent[i][1].header, "User-Agent") =
          (IF "User-Agent" \in DOMAIN req[i][1].header THEN req[i][1].header["User-Agent"] ELSE <<"">>)
    /\ \A k \in ((DOMAIN req[i][1].header) \cup (DOMAIN sent[i][1].header))
                    \ (RewrittenHeaders \cup {"X-Forwarded-For", "User-Agent"}) :
          IF k \in hop
          THEN k \notin DOMAIN sent[i][1].header
          ELSE SameHeader(req[i][1].header, sent[i][1].header, k)

Count(l, msg) == Cardinality({n \in 1..Len(l) : l[n].msg = msg})

\* Request i was accepted: it went past authentication without being rejected.
WasAccepted(i) == pc[i] \notin {"idle", "received", "rejected"}

\* The response of request i has been finished: passed through whole, or the 502.
Finished(i) == pc[i] \in {"passthrough", "upstream_error"}

\* C16 as stated: a rejected request has exactly one "rejected" record and no
\* "forwarding" or "completed" one; an accepted request has exactly one
\* "forwarding" record, written before the upstream is contacted, and exactly
\* one "completed" record, its last, once its response has been finished and
\* none before.
C16_LogRecordsAsStated ==
    \A i \in Slots :
        /\ pc[i] = "rejected" =>
              /\ Count(log[i], "rejected") = 1
              /\ Count(log[i], "forwarding") = 0 /\ Count(log[i], "completed") = 0
        /\ WasAccepted(i) =>
              /\ Count(log[i], "rejected") = 0
              /\ Count(log[i], "forwarding") = 1 /\ log[i][1].msg = "forwarding"
              /\ Count(log[i], "completed") = (IF Finished(i) THEN 1 ELSE 0)
              /\ Finished(i) => log[i][Len(log[i])].msg = "completed"
        /\ ~WasAccepted(i) => sent[i] = <<>>

\* C16, amended: the same at the log levels that admit the records
\* ("rejected" is written at warn, "forwarding" and "completed" at info), and
\* no such record at a level above; "forwarding" precedes every other record
\* of the request and is there before the upstream is contacted, "completed"
\* is the last record and is there only once the response has been finished.
C16_LogRecords ==
    \A i \in Slots :
        /\ pc[i] = "rejected" =>
              /\ Count(log[i], "rejected") = (IF level \in {"debug", "info", "warn"} THEN 1 ELSE 0)
              /\ Count(log[i], "forwarding") = 0 /\ Count(log[i], "completed") = 0
        /\ WasAccepted(i) =>
              /\ Count(log[i], "rejected") = 0
              /\ Count(log[i], "forwarding") = (IF level \in {"debug", "info"} THEN 1 ELSE 0)
              /\ level \in {"debug", "info"} => log[i][1].msg = "forwarding"
              /\ Count(log[i], "completed") =
                    (IF Finished(i) /\ level \in {"debug", "info"} THEN 1 ELSE 0)
              /\ (Finished(i) /\ level \in {"debug", "info"}) => log[i][Len(log[i])].msg = "completed"
        /\ ~WasAccepted(i) => sent[i] = <<>>
        /\ pc[i] \in {"idle", "received"} => log[i] = <<>>

\* At debug level an accepted request has been passed through: "forwarding"
\* first, the debug records, "completed" last.
C16_Witness ==
    /\ level = "debug"
    /\ pc[1] = "passthrough"
    /\ Len(log[1]) > 3
    /\ log[1][1].msg = "forwarding"
    /\ log[1][Len(log[1])].msg = "completed"

\* m is t with its middle masked: "***" when t has 16 characters or fewer,
\* else "***" or a prefix of t, "..." and a suffix of t that together are
\* shorter than t, so that part of t is not shown.
MasksMiddle(t, m) ==
    /\ Len(t) <= 16 => m = "***"
    /\ \/ m = "***"
       \/ \E p \in 0..Len(t) : \E q \in 0..(Len(t) - p - 1) :
             m = SubSeq(t, 1, p) \o "..." \o SubSeq(t, Len(t) - q + 1, Len(t))

\* C17: every value maskToken wrote to the log has the middle of its input
\* masked: the shared credential in the startup record and in Director's
\* debug record, and each Authorization value of a request in its debug
\* record.
C17_MaskHidesMiddle ==
    /\ \A n \in 1..Len(bootlog) :
          bootlog[n].msg = "starting maxmux" => MasksMiddle(cfg.OAuthToken, bootlog[n].oauth_token)
    /\ \A i \in Slots : \A n \in 1..Len(log[i]) :
          /\ (log[i][n].msg = "request header" /\ log[i][n].header = "Authorization") =>
                \E v \in {req[i][1].header["Authorization"][k] :
                             k \in 1..Len(req[i][1].header["Authorization"])} :
                    MasksMiddle(v, log[i][n].value)
          /\ log[i][n].msg = "injected oauth headers" =>
                /\ HasPrefix(log[i][n].authorization, "Bearer ")
                /\ MasksMiddle(cfg.OAuthToken, TrimPrefix(log[i][n].authorization, "Bearer "))

\* What a request that has reached a terminal state has been given: one
\* response; after a rejection a 401 and nothing of the upstream; after a
\* failure a 502; after a passthrough the upstream's whole body, all of it
\* with the caller.
C18_TerminalAsNamed(i) ==
    /\ pc[i] \in {"rejected", "upstream_error", "passthrough"} => resp[i].written = 1
    /\ pc[i] = "rejected" =>
          (resp[i].status = 401 /\ sent[i] = <<>> /\ up[i] = <<>> /\ arrived[i] = 0)
    /\ pc[i] = "upstream_error" => resp[i].status = 502
    /\ pc[i] = "passthrough" =>
          (resp[i].body = up[i][1].chunks /\ seen[i] = Len(up[i][1].chunks))

\* A request without valid credential can be rejected at once, whatever the
\* state of the upstream exchanges is.
C18_RejectNeedsNoUpstream(i) ==
    (pc[i] = "received" /\ PresentedCredential(req[i][1]) \notin ConfiguredKeys) => ENABLED Reject(i)

\* C18 as stated: every received request eventually has its 401 written, its
\* 502 written or the upstream's response fully relayed, and a request
\* without valid credential eventually has its 401 without any upstream event.
C18_TerminationAsStated ==
    /\ \A i \in Slots :
          (pc[i] = "received") ~> (pc[i] \in {"rejected", "upstream_error", "passthrough"})
    /\ \A i \in Slots :
          (pc[i] = "received" /\ PresentedCredential(req[i][1]) \notin ConfiguredKeys)
              ~> (pc[i] = "rejected")
    /\ [](\A i \in Slots : C18_TerminalAsNamed(i) /\ C18_RejectNeedsNoUpstream(i))

\* C18, amended: every received request eventually has its 401 written, its
\* 502 written, the upstream's response fully relayed, or the relay of its
\* response aborted; a request without valid credential eventually has its
\* 401, without any upstream event.
C18_Termination ==
    /\ \A i \in Slots :
          (pc[i] = "received") ~> (pc[i] \in {"rejected", "upstream_error", "passthrough", "aborted"})
    /\ \A i \in Slots :
          (pc[i] = "received" /\ PresentedCredential(req[i][1]) \notin ConfiguredKeys)
              ~> (pc[i] = "rejected")
    /\ [](\A i \in Slots :
             /\ C18_TerminalAsNamed(i)
             /\ C18_RejectNeedsNoUpstream(i)
             /\ pc[i] = "aborted" => (resp[i].written = 1 /\ Len(resp[i].body) < Len(up[i][1].chunks)))

\* One request has been rejected while the other had received the first of
\* the chunks its upstream sends over time, and has since been relayed whole.
C18_Witness ==
    /\ pc[1] = "passthrough"
    /\ up[1][1].paced /\ Len(up[1][1].chunks) >= 2
    /\ seen[1] = Len(up[1][1].chunks)
    /\ pc[2] = "rejected"
    /\ resp[2].status = 401

====
